---- MODULE Spec2Model ----
(***************************************************************************)
(* hash-file: the streaming digest engine (Hasher::hash_file), the         *)
(* verifier (Verifier::verify_file) and the parallel duplicate detector    *)
(* (Hasher::find_duplicates).                                              *)
(*                                                                         *)
(* The digest functions themselves live in external crates (md5, sha1,     *)
(* sha2, blake3).  They are represented by an 8-bit incremental checksum   *)
(* per algorithm: new() gives an initial state, update() absorbs a chunk   *)
(* byte by byte, finalize() yields one byte, rendered as two lowercase hex *)
(* characters.  Text is a sequence of one-character strings.               *)
(***************************************************************************)
EXTENDS Integers, Sequences, FiniteSets, TLC

VARIABLES hasher, op, paths, expected, task, pcMain, results, idx, map, ret

vars == <<hasher, op, paths, expected, task, pcMain, results, idx, map, ret>>

\* ------------------------------------------------------------- bounds
\* Longest path list handed to find_duplicates.
MaxPaths == 3
\* Length of the read buffer (vec![0u8; 8192], scaled down).
BufLen == 2
\* Longest run of whitespace put before or after the expected text.
MaxPad == 2
\* Longest expected text between the two pads.
MaxBody == 3

\* ------------------------------------------------------------ helpers
Min(x, y) == IF x < y THEN x ELSE y

Range(s) == {s[k] : k \in DOMAIN s}

SeqsUpTo(S, n) == UNION {[1..k -> S] : k \in 0..n}

\* ---------------------------------------------------------- algorithms
HashAlgorithm == {"Md5", "Sha1", "Sha256", "Sha512", "Blake3"}

\* Md5::new(), Sha1::new(), ... : the initial accumulator state.
NewAccumulator(alg) ==
    CASE alg = "Md5"    -> 165
      [] alg = "Sha1"   -> 90
      [] alg = "Sha256" -> 170
      [] alg = "Sha512" -> 85
      [] alg = "Blake3" -> 60

\* The per-algorithm mixing step of the stand-in checksum.
Multiplier(alg) ==
    CASE alg = "Md5"    -> 3
      [] alg = "Sha1"   -> 5
      [] alg = "Sha256" -> 7
      [] alg = "Sha512" -> 9
      [] alg = "Blake3" -> 11

RECURSIVE Update(_, _, _)
\* hasher.update(chunk): absorbs the bytes of the chunk in order.
Update(alg, h, chunk) ==
    IF chunk = <<>> THEN h
    ELSE Update(alg, (h * Multiplier(alg) + Head(chunk)) % 256, Tail(chunk))

\* hasher.finalize(): the digest bytes.
Finalize(alg, h) == <<h>>

HexDigits ==
    <<"0", "1", "2", "3", "4", "5", "6", "7",
      "8", "9", "a", "b", "c", "d", "e", "f">>

RECURSIVE HexEncode(_)
\* hex::encode / blake3 to_hex: two lowercase hex characters per byte.
HexEncode(bytes) ==
    IF bytes = <<>> THEN <<>>
    ELSE <<HexDigits[(Head(bytes) \div 16) + 1], HexDigits[(Head(bytes) % 16) + 1]>>
         \o HexEncode(Tail(bytes))

\* The digest of a whole byte string taken in one piece.
WholeDigest(alg, bytes) ==
    HexEncode(Finalize(alg, Update(alg, NewAccumulator(alg), bytes)))

\* ---------------------------------------------------------- file system
\* A path is a sequence of units; "xFF" and "xFE" stand for bytes that are
\* not valid UTF-8.
PathA == <<"a">>
PathB == <<"f", "xFF">>
PathC == <<"f", "xFE">>
PathD == <<"d">>
PathMissing == <<"n">>

\* The files that exist and their bytes: A and B have the same content,
\* C is empty, D is longer than the buffer.
Files == {PathA, PathB, PathC, PathD}

FileBytes(p) ==
    CASE p = PathA -> <<1, 201>>
      [] p = PathB -> <<1, 201>>
      [] p = PathC -> <<>>
      [] p = PathD -> <<4, 5, 6>>
      [] OTHER     -> <<>>

\* The paths given to hash_file and verify_file.
Paths == {PathA, PathB, PathC, PathD, PathMissing}

\* The paths given to find_duplicates.
ScanPaths == {PathA, PathB, PathC, PathMissing}

\* File::open succeeds.
Openable(p) == p \in Files

\* path.display().to_string(): units that are not valid UTF-8 are
\* replaced by U+FFFD.
PathDisplay(p) ==
    [k \in DOMAIN p |-> IF p[k] \in {"xFF", "xFE"} THEN "uFFFD" ELSE p[k]]

\* ----------------------------------------------------------------- text
AsciiUpper ==
    <<"A", "B", "C", "D", "E", "F", "G", "H", "I", "J", "K", "L", "M",
      "N", "O", "P", "Q", "R", "S", "T", "U", "V", "W", "X", "Y", "Z">>

AsciiLower ==
    <<"a", "b", "c", "d", "e", "f", "g", "h", "i", "j", "k", "l", "m",
      "n", "o", "p", "q", "r", "s", "t", "u", "v", "w", "x", "y", "z">>

ToAsciiLowercase(c) ==
    IF \E k \in DOMAIN AsciiUpper : AsciiUpper[k] = c
    THEN AsciiLower[CHOOSE k \in DOMAIN AsciiUpper : AsciiUpper[k] = c]
    ELSE c

\* char::is_whitespace, for the characters of the model.
IsWhitespace(c) == c \in {" ", "\t", "\n", "\r"}

RECURSIVE TrimStart(_)
TrimStart(s) ==
    IF s # <<>> /\ IsWhitespace(Head(s)) THEN TrimStart(Tail(s)) ELSE s

RECURSIVE TrimEnd(_)
TrimEnd(s) ==
    IF s # <<>> /\ IsWhitespace(s[Len(s)])
    THEN TrimEnd(SubSeq(s, 1, Len(s) - 1))
    ELSE s

\* Only the leading whitespace removed.
TrimStartOnly(s) == TrimStart(s)

\* str::trim
Trim(s) == TrimEnd(TrimStart(s))

\* str::eq_ignore_ascii_case
EqIgnoreAsciiCase(x, y) ==
    /\ Len(x) = Len(y)
    /\ \A k \in DOMAIN x : ToAsciiLowercase(x[k]) = ToAsciiLowercase(y[k])

\* ------------------------------------------------------- result values
OkDigest(d) == [ok |-> TRUE, digest |-> d, err |-> ""]

ErrResult(e) == [ok |-> FALSE, digest |-> <<>>, err |-> e]

EmptyMap == [d \in {} |-> <<>>]

NoRet ==
    [status |-> "none", digest |-> <<>>, verdict |-> FALSE,
     groups |-> EmptyMap, err |-> ""]

\* ------------------------------------------------------------ hash_file
\* A call of hash_file that has not started.
FreshTask ==
    [pc |-> "start", pos |-> 0, buffer |-> <<>>, acc |-> 0, fed |-> <<>>,
     lastn |-> -1, ioerrs |-> 0, result |-> ErrResult("")]

\* vec![0u8; 8192]
NewBuffer == [k \in 1..BufLen |-> 0]

\* The sizes a read at file position pos may return: zero only at the end
\* of the file, otherwise at least one byte and at most a buffer.
ReadSizes(bytes, pos) ==
    IF pos = Len(bytes) THEN {0} ELSE 1..Min(BufLen, Len(bytes) - pos)

\* reader.read(&mut buffer) returning n: the first n bytes of the buffer
\* are overwritten, the rest keep what they held.
FillBuffer(buffer, bytes, pos, n) ==
    [k \in DOMAIN buffer |-> IF k <= n THEN bytes[pos + k] ELSE buffer[k]]

\* A read shorter than the buffer taken for the end of the file.
IsEofShortRead(n) == n < BufLen

\* if n == 0 { break; }
IsEof(n) == n = 0

\* The whole buffer fed to the accumulator, stale bytes included.
ChunkWholeBuffer(buffer, n) == buffer

\* &buffer[..n]
Chunk(buffer, n) == SubSeq(buffer, 1, n)

\* File::open(path).context("Failed to open file")?, then the reader, the
\* buffer and the accumulator of the selected algorithm.
Open(i) ==
    /\ task[i].pc = "start"
    /\ IF Openable(paths[i])
       THEN task' = [task EXCEPT ![i] =
                [@ EXCEPT !.pc = "read", !.buffer = NewBuffer,
                          !.acc = NewAccumulator(hasher.algorithm)]]
       ELSE task' = [task EXCEPT ![i] =
                [@ EXCEPT !.pc = "done", !.ioerrs = @ + 1,
                          !.result = ErrResult("Failed to open file")]]
    /\ UNCHANGED <<hasher, op, paths, expected, pcMain, results, idx, map, ret>>

\* One turn of the loop with a read that succeeds: on a zero-length read
\* the accumulator is finalized and the digest returned, otherwise the
\* chunk is fed to the accumulator.
Read(i) ==
    /\ task[i].pc = "read"
    /\ \E n \in ReadSizes(FileBytes(paths[i]), task[i].pos) :
         LET t   == task[i]
             buf == FillBuffer(t.buffer, FileBytes(paths[i]), t.pos, n)
         IN  IF IsEof(n)
             THEN task' = [task EXCEPT ![i] =
                      [@ EXCEPT !.pc = "done", !.pos = 0, !.buffer = <<>>,
                                !.acc = 0, !.lastn = n,
                                !.result = OkDigest(HexEncode(
                                    Finalize(hasher.algorithm, t.acc)))]]
             ELSE task' = [task EXCEPT ![i] =
                      [@ EXCEPT !.pos = t.pos + n, !.buffer = buf, !.lastn = n,
                                !.acc = Update(hasher.algorithm, t.acc, Chunk(buf, n)),
                                !.fed = t.fed \o Chunk(buf, n)]]
    /\ UNCHANGED <<hasher, op, paths, expected, pcMain, results, idx, map, ret>>

\* The outcome of a read that fails: reader.read(&mut buffer)? returns the
\* error from hash_file.
ReadFailed(t) ==
    [t EXCEPT !.pc = "done", !.pos = 0, !.buffer = <<>>, !.acc = 0,
              !.fed = <<>>, !.lastn = -1, !.ioerrs = @ + 1,
              !.result = ErrResult("read failed")]

ReadFail(i) ==
    /\ task[i].pc = "read"
    /\ task' = [task EXCEPT ![i] = ReadFailed(task[i])]
    /\ UNCHANGED <<hasher, op, paths, expected, pcMain, results, idx, map, ret>>

\* ------------------------------------------------- hash_file as a call
\* The value hash_file hands to its caller.
HashReturn ==
    /\ op = "hash_file"
    /\ pcMain = "call"
    /\ task[1].pc = "done"
    /\ ret' = IF task[1].result.ok
              THEN [NoRet EXCEPT !.status = "ok", !.digest = task[1].result.digest]
              ELSE [NoRet EXCEPT !.status = "err", !.err = task[1].result.err]
    /\ pcMain' = "done"
    /\ UNCHANGED <<hasher, op, paths, expected, task, results, idx, map>>

\* ---------------------------------------------------------- verify_file
\* A failed hash reported as a mismatch instead of the error.
VerifyResultSwallow(r, e) ==
    [NoRet EXCEPT !.status = "ok",
                  !.verdict = r.ok /\ EqIgnoreAsciiCase(r.digest, Trim(e))]

\* let calculated = self.hasher.hash_file(path)?;
\* Ok(calculated.eq_ignore_ascii_case(expected.trim()))
VerifyResult(r, e) ==
    IF r.ok
    THEN [NoRet EXCEPT !.status = "ok", !.verdict = EqIgnoreAsciiCase(r.digest, Trim(e))]
    ELSE [NoRet EXCEPT !.status = "err", !.err = r.err]

VerifyReturn ==
    /\ op = "verify_file"
    /\ pcMain = "call"
    /\ task[1].pc = "done"
    /\ ret' = VerifyResult(task[1].result, expected)
    /\ pcMain' = "done"
    /\ UNCHANGED <<hasher, op, paths, expected, task, results, idx, map>>

\* ------------------------------------------------------ find_duplicates
\* A failed hash kept as an item with an empty digest.
TaskItemOrDefault(r, p) == << <<r.digest, PathDisplay(p)>> >>

\* The filter_map closure: a path whose hash failed yields nothing.
TaskItem(r, p) ==
    IF r.ok THEN << <<r.digest, PathDisplay(p)>> >> ELSE <<>>

\* Grouping that starts as soon as one task is done.
AnyDone == \E i \in DOMAIN task : task[i].pc = "done"

\* collect() returns once every item of the parallel iterator is done.
AllDone == \A i \in DOMAIN task : task[i].pc = "done"

RECURSIVE CollectUpTo(_)
\* collect() into a Vec keeps the items in the order of the input slice.
CollectUpTo(n) ==
    IF n = 0 THEN <<>>
    ELSE CollectUpTo(n - 1) \o TaskItem(task[n].result, paths[n])

Collect ==
    /\ op = "find_duplicates"
    /\ pcMain = "par"
    /\ AllDone
    /\ results' = CollectUpTo(Len(paths))
    /\ idx' = 1
    /\ pcMain' = "group"
    /\ UNCHANGED <<hasher, op, paths, expected, task, map, ret>>

\* map.insert(hash, vec![path]): the paths already under the digest are lost.
InsertOverwrite(m, hash, path) ==
    [d \in DOMAIN m \cup {hash} |-> IF d = hash THEN <<path>> ELSE m[d]]

\* The path put at the front of the digest's list.
InsertFront(m, hash, path) ==
    IF hash \in DOMAIN m
    THEN [m EXCEPT ![hash] = <<path>> \o @]
    ELSE [d \in DOMAIN m \cup {hash} |-> IF d = hash THEN <<path>> ELSE m[d]]

\* A path already under the digest is not added again.
InsertUnique(m, hash, path) ==
    IF hash \in DOMAIN m
    THEN [m EXCEPT ![hash] = IF path \in Range(@) THEN @ ELSE Append(@, path)]
    ELSE [d \in DOMAIN m \cup {hash} |-> IF d = hash THEN <<path>> ELSE m[d]]

\* map.entry(hash).or_insert_with(Vec::new).push(path)
Insert(m, hash, path) ==
    IF hash \in DOMAIN m
    THEN [m EXCEPT ![hash] = Append(@, path)]
    ELSE [d \in DOMAIN m \cup {hash} |-> IF d = hash THEN <<path>> ELSE m[d]]

\* One turn of: for (hash, path) in results { ... }
GroupStep ==
    /\ pcMain = "group"
    /\ idx <= Len(results)
    /\ map' = Insert(map, results[idx][1], results[idx][2])
    /\ idx' = idx + 1
    /\ UNCHANGED <<hasher, op, paths, expected, task, pcMain, results, ret>>

\* The filter keeping every group that is not empty.
KeepNonEmpty(m) ==
    [d \in {k \in DOMAIN m : Len(m[k]) > 0} |-> m[d]]

\* map.into_iter().filter(|(_, v)| v.len() > 1).collect()
KeepDuplicates(m) ==
    [d \in {k \in DOMAIN m : Len(m[k]) > 1} |-> m[d]]

\* Ok(...)
Return ==
    /\ pcMain = "group"
    /\ idx > Len(results)
    /\ ret' = [NoRet EXCEPT !.status = "ok", !.groups = KeepDuplicates(map)]
    /\ pcMain' = "done"
    /\ UNCHANGED <<hasher, op, paths, expected, task, results, idx, map>>

\* ------------------------------------------------------ specifications
\* The expected texts handed to verify_file: whitespace, a body, whitespace.
Pads == {[k \in 1..n |-> " "] : n \in 0..MaxPad}

ExpectedTexts ==
    {l \o b \o t : l \in Pads, b \in SeqsUpTo({"a", "A", "5", "\n"}, MaxBody), t \in Pads}

\* One call of find_duplicates on a Hasher of any algorithm.
Init ==
    /\ hasher \in [algorithm : HashAlgorithm]
    /\ op = "find_duplicates"
    /\ paths \in SeqsUpTo(ScanPaths, MaxPaths)
    /\ expected = <<>>
    /\ task = [i \in DOMAIN paths |-> FreshTask]
    /\ pcMain = "par"
    /\ results = <<>>
    /\ idx = 0
    /\ map = EmptyMap
    /\ ret = NoRet

Next ==
    \/ \E i \in DOMAIN task : Open(i)
    \/ \E i \in DOMAIN task : Read(i)
    \/ \E i \in DOMAIN task : ReadFail(i)
    \/ Collect
    \/ GroupStep
    \/ Return

Spec == Init /\ [][Next]_vars

\* One call of hash_file or of verify_file.
InitCall ==
    /\ hasher \in [algorithm : HashAlgorithm]
    /\ op \in {"hash_file", "verify_file"}
    /\ paths \in {<<p>> : p \in Paths}
    /\ expected \in IF op = "verify_file" THEN ExpectedTexts ELSE {<<>>}
    /\ task = [i \in DOMAIN paths |-> FreshTask]
    /\ pcMain = "call"
    /\ results = <<>>
    /\ idx = 0
    /\ map = EmptyMap
    /\ ret = NoRet

NextCall ==
    \/ Open(1)
    \/ Read(1)
    \/ ReadFail(1)
    \/ HashReturn
    \/ VerifyReturn

SpecCall == InitCall /\ [][NextCall]_vars

\* ------------------------------------------ find_duplicates: properties
\* find_duplicates has returned.
Returned == op = "find_duplicates" /\ pcMain = "done"

\* Entry i of the input list was hashed successfully, with digest d.
Hashed(i, d) ==
    task[i].pc = "done" /\ task[i].result.ok /\ task[i].result.digest = d

\* The entries of the input list that hashed to d.
EntriesOf(d) == {i \in DOMAIN paths : Hashed(i, d)}

\* Every digest some entry produced or some group is keyed by.
SeenDigests ==
    {task[i].result.digest : i \in {j \in DOMAIN task : task[j].result.ok}}
        \cup DOMAIN ret.groups

\* Every path string of the input or of the result.
SeenStrings ==
    {PathDisplay(paths[i]) : i \in DOMAIN paths}
        \cup UNION {Range(ret.groups[d]) : d \in DOMAIN ret.groups}

Count(seq, s) == Cardinality({k \in DOMAIN seq : seq[k] = s})

\* C1: every group of the mapping find_duplicates returns has at least two
\* paths, and a digest that exactly one successfully hashed entry produced
\* is not a key of the mapping.
C1_GroupsHaveTwo ==
    Returned =>
        /\ \A d \in DOMAIN ret.groups : Len(ret.groups[d]) >= 2
        /\ \A d \in SeenDigests :
              Cardinality(EntriesOf(d)) = 1 => d \notin DOMAIN ret.groups

\* A call that returned a group and dropped a singleton digest.
C1_Witness ==
    /\ Returned
    /\ DOMAIN ret.groups # {}
    /\ \E d \in SeenDigests : Cardinality(EntriesOf(d)) = 1

\* C2: a path string is in the group keyed by d exactly when it is an
\* entry that hashed to d while another entry hashed to d as well; every
\* member of a group comes from an entry with the group's digest; and with
\* pairwise-distinct digests the mapping is empty.
C2_GroupsByDigest ==
    Returned =>
        /\ \A d \in SeenDigests : \A s \in SeenStrings :
              (d \in DOMAIN ret.groups /\ s \in Range(ret.groups[d]))
              <=> \E i \in EntriesOf(d) :
                     /\ PathDisplay(paths[i]) = s
                     /\ \E j \in EntriesOf(d) : j # i
        /\ \A d \in DOMAIN ret.groups :
              /\ Len(ret.groups[d]) = Cardinality(EntriesOf(d))
              /\ \A k \in DOMAIN ret.groups[d] :
                    \E i \in EntriesOf(d) : PathDisplay(paths[i]) = ret.groups[d][k]
        /\ (\A d \in SeenDigests : Cardinality(EntriesOf(d)) <= 1)
              => ret.groups = EmptyMap

\* A, B and C in one call: one group of two with A and B, C in no group.
C2_Witness ==
    /\ Returned
    /\ Len(paths) = 3
    /\ {paths[i] : i \in DOMAIN paths} = {PathA, PathB, PathC}
    /\ \A i \in DOMAIN task : task[i].result.ok
    /\ Cardinality(DOMAIN ret.groups) = 1
    /\ \A d \in DOMAIN ret.groups :
          Range(ret.groups[d]) = {PathDisplay(PathA), PathDisplay(PathB)}

RECURSIVE Survivors(_)
\* The first n entries of the input list with the failing ones removed.
Survivors(n) ==
    IF n = 0 THEN <<>>
    ELSE Survivors(n - 1) \o (IF task[n].result.ok THEN <<paths[n]>> ELSE <<>>)

RECURSIVE PathsWithDigest(_, _, _)
\* The strings of the paths among the first n of list whose file has
\* digest d, in the order of the list.
PathsWithDigest(list, d, n) ==
    IF n = 0 THEN <<>>
    ELSE PathsWithDigest(list, d, n - 1)
         \o (IF WholeDigest(hasher.algorithm, FileBytes(list[n])) = d
             THEN <<PathDisplay(list[n])>> ELSE <<>>)

\* What a call in which no hash fails returns on list.
CleanCall(list) ==
    LET dig(k) == WholeDigest(hasher.algorithm, FileBytes(list[k]))
        keys == {dig(k) : k \in {j \in DOMAIN list :
                    \E l \in DOMAIN list : l # j /\ dig(l) = dig(j)}}
    IN  [d \in keys |-> PathsWithDigest(list, d, Len(list))]

\* C3: find_duplicates never returns an error; what it returns is what a
\* call on the input list without the failing entries returns, and a path
\* string all of whose entries failed is in no group.
C3_FailuresDropped ==
    /\ op = "find_duplicates" => ret.status # "err"
    /\ Returned =>
          /\ ret.status = "ok"
          /\ ret.groups = CleanCall(Survivors(Len(paths)))
          /\ \A s \in SeenStrings :
                (\A i \in DOMAIN paths :
                    PathDisplay(paths[i]) = s => ~task[i].result.ok)
                => \A d \in DOMAIN ret.groups : s \notin Range(ret.groups[d])

\* A call in which a read failed on one entry and which still returned a group.
C3_Witness ==
    /\ Returned
    /\ \E i \in DOMAIN task : task[i].result.err = "read failed"
    /\ DOMAIN ret.groups # {}

\* C4: whatever the interleaving of the hash tasks, the keys of the result
\* and the members of each group, counted with multiplicity, are those of
\* grouping the entries one at a time by their outcomes; grouping starts
\* only when every task has produced its result.
C4_SameAsSequential ==
    /\ pcMain \in {"group", "done"} => \A i \in DOMAIN task : task[i].pc = "done"
    /\ Returned =>
          /\ DOMAIN ret.groups =
                {d \in SeenDigests : Cardinality(EntriesOf(d)) >= 2}
          /\ \A d \in DOMAIN ret.groups : \A s \in SeenStrings :
                Count(ret.groups[d], s) =
                    Cardinality({i \in EntriesOf(d) : PathDisplay(paths[i]) = s})

\* Three entries of the same content, hashed concurrently, in one group.
C4_Witness ==
    /\ Returned
    /\ \E d \in DOMAIN ret.groups :
          Len(ret.groups[d]) = 3 /\ Cardinality(Range(ret.groups[d])) >= 2

RECURSIVE InputOrder(_, _)
\* The strings of the entries among the first n that hashed to d, in the
\* order of the input list.
InputOrder(d, n) ==
    IF n = 0 THEN <<>>
    ELSE InputOrder(d, n - 1)
         \o (IF Hashed(n, d) THEN <<PathDisplay(paths[n])>> ELSE <<>>)

\* C9: the paths of a group are in the order of their entries in the
\* input list, whatever the interleaving of the hash tasks.
C9_InputOrderKept ==
    Returned =>
        \A d \in DOMAIN ret.groups : ret.groups[d] = InputOrder(d, Len(paths))

\* A group whose first two paths differ, B listed before A.
C9_Witness ==
    /\ Returned
    /\ Len(paths) >= 2
    /\ paths[1] = PathB
    /\ \E d \in DOMAIN ret.groups :
          /\ ret.groups[d][1] = PathDisplay(PathB)
          /\ ret.groups[d][2] = PathDisplay(PathA)

RECURSIVE SumLen(_, _)
SumLen(m, keys) ==
    IF keys = {} THEN 0
    ELSE LET d == CHOOSE x \in keys : TRUE
         IN  Len(m[d]) + SumLen(m, keys \ {d})

\* C10: the result holds one path per input entry, not per distinct file:
\* a group is as long as the number of entries that hashed to its digest,
\* the groups together hold no more paths than the input list, and two
\* entries naming the same path are both in the group of its digest.
C10_OnePerEntry ==
    Returned =>
        /\ \A d \in DOMAIN ret.groups :
              Len(ret.groups[d]) = Cardinality(EntriesOf(d))
        /\ SumLen(ret.groups, DOMAIN ret.groups) <= Len(paths)
        /\ SumLen(ret.groups, DOMAIN ret.groups)
              = Cardinality({i \in DOMAIN paths :
                    task[i].result.ok /\ task[i].result.digest \in DOMAIN ret.groups})
        /\ \A i, j \in DOMAIN paths :
              (i # j /\ paths[i] = paths[j]
                 /\ task[i].result.ok /\ task[j].result.ok)
              => /\ task[i].result.digest \in DOMAIN ret.groups
                 /\ Count(ret.groups[task[i].result.digest],
                          PathDisplay(paths[i])) >= 2

\* C listed twice and nothing else of its content: a group of C with itself.
C10_Witness ==
    /\ Returned
    /\ paths = <<PathC, PathC>>
    /\ \E d \in DOMAIN ret.groups :
          ret.groups[d] = <<PathDisplay(PathC), PathDisplay(PathC)>>

\* C8: the digest hash_file returns is the digest of the file's bytes
\* under the Hasher's algorithm, whatever the chunks the reads returned and
\* whatever the other calls on the same Hasher did; two calls on files of
\* the same bytes return the same digest.
C8_DigestOfBytesOnly ==
    /\ \A i \in DOMAIN task :
          (task[i].pc = "done" /\ task[i].result.ok)
          => task[i].result.digest
                 = WholeDigest(hasher.algorithm, FileBytes(paths[i]))
    /\ \A i, j \in DOMAIN task :
          (/\ task[i].pc = "done" /\ task[i].result.ok
           /\ task[j].pc = "done" /\ task[j].result.ok
           /\ FileBytes(paths[i]) = FileBytes(paths[j]))
          => task[i].result.digest = task[j].result.digest

\* The same file hashed by two calls that have returned while a third call
\* on it is in the middle of the file after a one-byte read.
C8_Witness ==
    \E i, j, k \in DOMAIN task :
        /\ i # j /\ j # k /\ i # k
        /\ paths[i] = PathA /\ paths[j] = PathA /\ paths[k] = PathA
        /\ task[i].pc = "done" /\ task[i].result.ok
        /\ task[j].pc = "done" /\ task[j].result.ok
        /\ task[k].pc = "read" /\ task[k].pos = 1

\* ------------------------------- hash_file and verify_file: properties
\* The number of whitespace characters e starts with.
LeadingWs(e) ==
    CHOOSE k \in 0..Len(e) :
        /\ \A j \in 1..k : IsWhitespace(e[j])
        /\ k = Len(e) \/ ~IsWhitespace(e[k + 1])

\* The number of whitespace characters e ends with.
TrailingWs(e) ==
    CHOOSE k \in 0..Len(e) :
        /\ \A j \in 1..k : IsWhitespace(e[Len(e) + 1 - j])
        /\ k = Len(e) \/ ~IsWhitespace(e[Len(e) - k])

\* e with its leading and trailing whitespace removed.
Stripped(e) ==
    IF LeadingWs(e) = Len(e) THEN <<>>
    ELSE SubSeq(e, LeadingWs(e) + 1, Len(e) - TrailingWs(e))

\* The same character, or the two cases of one ASCII letter.
SameLetter(x, y) ==
    \/ x = y
    \/ \E k \in DOMAIN AsciiUpper :
          {x, y} = {AsciiUpper[k], AsciiLower[k]}

\* x and y are equal when letter case is ignored.
SameIgnoringCase(x, y) ==
    Len(x) = Len(y) /\ \A k \in DOMAIN x : SameLetter(x[k], y[k])

\* d in upper case.
UpperCase(d) ==
    [k \in DOMAIN d |->
        IF \E l \in DOMAIN AsciiLower : AsciiLower[l] = d[k]
        THEN AsciiUpper[CHOOSE l \in DOMAIN AsciiLower : AsciiLower[l] = d[k]]
        ELSE d[k]]

\* verify_file has returned for a file whose digest was computed.
Verified ==
    op = "verify_file" /\ pcMain = "done" /\ task[1].result.ok

\* C5: for a readable file with digest d, verify_file returns Ok(true)
\* exactly when the expected text without its leading and trailing
\* whitespace equals d up to letter case; d, d in upper case and d between
\* two spaces on each side give true; a text that differs from d in one
\* character, a proper prefix of d and the empty text give false.
C5_VerifyNormalizes ==
    Verified =>
        LET d == task[1].result.digest
            e == expected
        IN  /\ ret.status = "ok"
            /\ ret.verdict <=> SameIgnoringCase(Stripped(e), d)
            /\ e \in {d, UpperCase(d), <<" ", " ">> \o d \o <<" ", " ">>}
                  => ret.verdict
            /\ (/\ Len(e) = Len(d)
                /\ Cardinality({k \in DOMAIN d : ~SameLetter(e[k], d[k])}) = 1)
                  => ~ret.verdict
            /\ (Len(e) < Len(d) /\ e = SubSeq(d, 1, Len(e))) => ~ret.verdict

\* File A verified against its digest written in upper case between two
\* spaces on each side.
C5_Witness ==
    /\ Verified
    /\ paths[1] = PathA
    /\ expected = <<" ", " ">> \o UpperCase(task[1].result.digest) \o <<" ", " ">>
    /\ UpperCase(task[1].result.digest) # task[1].result.digest
    /\ ret.verdict

\* C6: hash_file returns an error when the open or a read fails, after
\* exactly one failed operation; and when hash_file failed, both hash_file
\* and verify_file hand that error to the caller, whatever the expected
\* text is.
C6_ErrorsSurface ==
    /\ \A i \in DOMAIN task :
          /\ task[i].ioerrs <= 1
          /\ task[i].pc = "done" =>
                /\ task[i].result.ok <=> task[i].ioerrs = 0
                /\ ~Openable(paths[i]) =>
                      /\ ~task[i].result.ok
                      /\ task[i].result.err = "Failed to open file"
          /\ task[i].ioerrs = 1 =>
                task[i].pc = "done" /\ ~task[i].result.ok
    /\ (pcMain = "done" /\ ~task[1].result.ok) =>
          /\ ret.status = "err"
          /\ ret.err = task[1].result.err
          /\ ret.verdict = FALSE /\ ret.digest = <<>>

\* verify_file, given a text that is not empty, returning the error of a
\* read that failed in the middle of the file.
C6_Witness ==
    /\ op = "verify_file"
    /\ pcMain = "done"
    /\ expected # <<>>
    /\ paths[1] = PathD
    /\ ret.status = "err"
    /\ ret.err = "read failed"

\* C7: the bytes fed to the accumulator are, at every moment, the bytes of
\* the file up to the read position, in order; a digest is returned only
\* after a zero-length read, and then the bytes fed are the whole file and
\* the digest is the digest of the bytes fed.
C7_ChunksInOrder ==
    \A i \in DOMAIN task :
        /\ task[i].pc = "read" =>
              /\ task[i].fed = SubSeq(FileBytes(paths[i]), 1, task[i].pos)
              /\ task[i].lastn # 0
              /\ task[i].acc = Update(hasher.algorithm,
                                      NewAccumulator(hasher.algorithm), task[i].fed)
        /\ (task[i].pc = "done" /\ task[i].result.ok) =>
              /\ task[i].lastn = 0
              /\ task[i].fed = FileBytes(paths[i])
              /\ task[i].result.digest = WholeDigest(hasher.algorithm, task[i].fed)

\* hash_file returning the digest of file D, which is longer than the buffer.
C7_Witness ==
    /\ op = "hash_file"
    /\ pcMain = "done"
    /\ paths[1] = PathD
    /\ Len(FileBytes(PathD)) > BufLen
    /\ ret.status = "ok"
    /\ ret.digest = WholeDigest(hasher.algorithm, FileBytes(PathD))

====
